---- MODULE Spec2Model ----
(***************************************************************************)
(* Brute-force planar convex hull (kwfarkas42.cpp).                        *)
(*                                                                         *)
(* A point is a pair <<x, y>>; coordinates are small integers, on which    *)
(* the double arithmetic of the program is exact.  A std::vector is a      *)
(* sequence; a std::set<point> is the sequence of its elements in          *)
(* iteration order (ascending by operator< of std::pair).                  *)
(***************************************************************************)
EXTENDS Integers, Sequences, FiniteSets

\* Largest coordinate of an input point (points lie on 0..MaxCoord squared).
MaxCoord == 2
\* Largest number of points in the input vector.
MaxN == 5
\* Largest number of points a caller passes again in every other order.
MaxReorder == 4

Coords == 0..MaxCoord
Grid == Coords \X Coords

VARIABLES
    pts,              \* find_hull's argument pts
    ret_hull_points,  \* find_hull's output argument
    sgmts,            \* find_hull's local vector of line segments
    pts_set,          \* find_hull's local std::set<point>
    pc,               \* position in find_hull: start, called, first, second, done, thrown
    bf_calls,         \* sizes brute_force_convex_hull was invoked with by this call
    out0,             \* contents of ret_hull_points when find_hull was entered
    kind,             \* which call this is: first, rehull, reverse, perm
    prev_hull,        \* what the previous call produced (second call only)
    prev_sgmts        \* the segments the previous call accepted (second call only)

vars == <<pts, ret_hull_points, sgmts, pts_set, pc, bf_calls, out0, kind,
          prev_hull, prev_sgmts>>

Range(s) == {s[n] : n \in 1..Len(s)}

----------------------------------------------------------------------------
(* std::pair<double,double> and std::set<point> *)

\* operator< of std::pair: first, then second.
PointLess(p, q) == p[1] < q[1] \/ (p[1] = q[1] /\ p[2] < q[2])

\* SetInsert as a std::multiset would do it: equal points are kept.
SetInsert_KeepsEqual(s, p) ==
    LET below == Cardinality({n \in 1..Len(s) : PointLess(s[n], p)})
    IN  SubSeq(s, 1, below) \o <<p>> \o SubSeq(s, below + 1, Len(s))

\* std::set<point>::insert: a sorted container without duplicates.
SetInsert(s, p) ==
    IF \E n \in 1..Len(s) : ~PointLess(s[n], p) /\ ~PointLess(p, s[n])
    THEN s
    ELSE LET below == Cardinality({n \in 1..Len(s) : PointLess(s[n], p)})
         IN  SubSeq(s, 1, below) \o <<p>> \o SubSeq(s, below + 1, Len(s))

\* get_first returning the end of the segment.
get_first_ReturnsSecond(sgmt) == sgmt[2]

get_first(sgmt) == sgmt[1]

\* get_second returning the beginning of the segment.
get_second_ReturnsFirst(sgmt) == sgmt[1]

get_second(sgmt) == sgmt[2]

\* std::transform(sgmts.begin(), sgmts.end(), std::inserter(set, ...), get_first)
RECURSIVE TransformFirstInto(_, _, _)
TransformFirstInto(segs, n, s) ==
    IF n > Len(segs) THEN s
    ELSE TransformFirstInto(segs, n + 1, SetInsert(s, get_first(segs[n])))

\* std::transform(sgmts.begin(), sgmts.end(), std::inserter(set, ...), get_second)
RECURSIVE TransformSecondInto(_, _, _)
TransformSecondInto(segs, n, s) ==
    IF n > Len(segs) THEN s
    ELSE TransformSecondInto(segs, n + 1, SetInsert(s, get_second(segs[n])))

\* read_points: the points of the file go through a std::set<point> and are
\* copied to the vector in the set's order.
RECURSIVE read_points(_)
read_points(S) ==
    IF S = {} THEN <<>>
    ELSE LET p == CHOOSE m \in S : \A q \in S \ {m} : PointLess(q, m)
         IN  Append(read_points(S \ {p}), p)

----------------------------------------------------------------------------
(* brute_force_convex_hull *)

LineA(pi, pj) == pj[2] - pi[2]

LineB(pi, pj) == pi[1] - pj[1]

LineC(pi, pj) == (pj[2] * pi[1]) - (pi[2] * pj[1])

\* Val with the two products of c added instead of subtracted.
Val_SumC(pi, pj, pk) ==
    (LineA(pi, pj) * pk[1]) + (LineB(pi, pj) * pk[2])
        - ((pj[2] * pi[1]) + (pi[2] * pj[1]))

\* val of the innermost loop body for the line through pi, pj and the point pk.
Val(pi, pj, pk) ==
    (LineA(pi, pj) * pk[1]) + (LineB(pi, pj) * pk[2]) - LineC(pi, pj)

\* ScanK with "val <= 0" for "val < 0".
RECURSIVE ScanK_NonStrict(_, _, _, _, _, _)
ScanK_NonStrict(p, i, j, k, LT, GT) ==
    IF k > Len(p) THEN <<LT, GT>>
    ELSE LET val == (LineA(p[i], p[j]) * p[k][1]) + (LineB(p[i], p[j]) * p[k][2])
                        - LineC(p[i], p[j])
         IN  IF val <= 0 THEN ScanK_NonStrict(p, i, j, k + 1, TRUE, GT)
             ELSE ScanK_NonStrict(p, i, j, k + 1, LT, TRUE)

\* ScanK counting a third point on the line as lying on both sides.
RECURSIVE ScanK_RejectsCollinear(_, _, _, _, _, _)
ScanK_RejectsCollinear(p, i, j, k, LT, GT) ==
    IF k > Len(p) THEN <<LT, GT>>
    ELSE LET val == (LineA(p[i], p[j]) * p[k][1]) + (LineB(p[i], p[j]) * p[k][2])
                        - LineC(p[i], p[j])
         IN  IF val < 0 THEN ScanK_RejectsCollinear(p, i, j, k + 1, TRUE, GT)
             ELSE IF val > 0 THEN ScanK_RejectsCollinear(p, i, j, k + 1, LT, TRUE)
             ELSE IF k /= i /\ k /= j
                  THEN ScanK_RejectsCollinear(p, i, j, k + 1, TRUE, TRUE)
                  ELSE ScanK_RejectsCollinear(p, i, j, k + 1, LT, GT)

\* The loop over k: <<LT, GT>> after points k..size have been examined.
RECURSIVE ScanK(_, _, _, _, _, _)
ScanK(p, i, j, k, LT, GT) ==
    IF k > Len(p) THEN <<LT, GT>>
    ELSE LET val == Val(p[i], p[j], p[k])
         IN  IF val < 0 THEN ScanK(p, i, j, k + 1, TRUE, GT)
             ELSE IF val > 0 THEN ScanK(p, i, j, k + 1, LT, TRUE)
             ELSE ScanK(p, i, j, k + 1, LT, GT)

\* Accepts testing LT alone.
Accepts_OnlyLT(LT, GT) == LT /= TRUE

\* if(LT != true || GT != true)
Accepts(LT, GT) == LT /= TRUE \/ GT /= TRUE

\* The loop over j for a fixed i, appending to ret.
RECURSIVE LoopJ(_, _, _, _)
LoopJ(p, i, j, ret) ==
    IF j > Len(p) THEN ret
    ELSE LET f == ScanK(p, i, j, 1, FALSE, FALSE)
         IN  LoopJ(p, i, j + 1,
                   IF Accepts(f[1], f[2]) THEN Append(ret, <<p[i], p[j]>>) ELSE ret)

\* LoopI stopping one point early (i < size - 2).
RECURSIVE LoopI_StopsEarly(_, _, _)
LoopI_StopsEarly(p, i, ret) ==
    IF i > Len(p) - 2 THEN ret
    ELSE LoopI_StopsEarly(p, i + 1, LoopJ(p, i, i + 1, ret))

\* The loop over i.
RECURSIVE LoopI(_, _, _)
LoopI(p, i, ret) ==
    IF i > Len(p) - 1 THEN ret
    ELSE LoopI(p, i + 1, LoopJ(p, i, i + 1, ret))

\* brute_force_convex_hull(pts, ret_sgmts): the value of ret_sgmts on return.
brute_force_convex_hull(p, ret_sgmts) == LoopI(p, 1, ret_sgmts)

----------------------------------------------------------------------------
(* find_hull, and the callers that supply its arguments *)

\* What the output vector may hold on entry: nothing, or an earlier point.
OutputOnEntry == {<<>>, << <<MaxCoord, MaxCoord>> >>}

\* main: pts comes from read_points, in the order of a std::set<point>.
Init ==
    /\ pts \in {read_points(S) : S \in {T \in SUBSET Grid : Cardinality(T) <= MaxN}}
    /\ ret_hull_points \in OutputOnEntry
    /\ out0 = ret_hull_points
    /\ sgmts = <<>>
    /\ pts_set = <<>>
    /\ pc = "start"
    /\ bf_calls = <<>>
    /\ kind = "first"
    /\ prev_hull = <<>>
    /\ prev_sgmts = <<>>

\* FindHullThrow returning an empty result instead of throwing.
FindHullThrow_ReturnsEmpty ==
    /\ pc = "start"
    /\ Len(pts) = 0
    /\ pc' = "done"
    /\ UNCHANGED <<pts, ret_hull_points, sgmts, pts_set, bf_calls, out0, kind,
                   prev_hull, prev_sgmts>>

\* if(pts.size() == 0) throw std::runtime_error(...)
FindHullThrow ==
    /\ pc = "start"
    /\ Len(pts) = 0
    /\ pc' = "thrown"
    /\ UNCHANGED <<pts, ret_hull_points, sgmts, pts_set, bf_calls, out0, kind,
                   prev_hull, prev_sgmts>>

\* FindHullSingle without the branch for one point: the enumerator runs on it.
FindHullSingle_FallsThrough ==
    /\ pc = "start"
    /\ Len(pts) = 1
    /\ sgmts' = brute_force_convex_hull(pts, <<>>)
    /\ pts_set' = <<>>
    /\ bf_calls' = Append(bf_calls, Len(pts))
    /\ pc' = "called"
    /\ UNCHANGED <<pts, ret_hull_points, out0, kind, prev_hull, prev_sgmts>>

\* else if(pts.size() == 1) ret_hull_points.push_back(*pts.begin())
FindHullSingle ==
    /\ pc = "start"
    /\ Len(pts) = 1
    /\ ret_hull_points' = Append(ret_hull_points, pts[1])
    /\ pc' = "done"
    /\ UNCHANGED <<pts, sgmts, pts_set, bf_calls, out0, kind, prev_hull, prev_sgmts>>

\* else: brute_force_convex_hull(pts, sgmts)
FindHullCall ==
    /\ pc = "start"
    /\ Len(pts) /= 0
    /\ Len(pts) /= 1
    /\ sgmts' = brute_force_convex_hull(pts, <<>>)
    /\ pts_set' = <<>>
    /\ bf_calls' = Append(bf_calls, Len(pts))
    /\ pc' = "called"
    /\ UNCHANGED <<pts, ret_hull_points, out0, kind, prev_hull, prev_sgmts>>

\* copy the first point of the line segments to pts_set
TransformFirst ==
    /\ pc = "called"
    /\ pts_set' = TransformFirstInto(sgmts, 1, pts_set)
    /\ pc' = "first"
    /\ UNCHANGED <<pts, ret_hull_points, sgmts, bf_calls, out0, kind, prev_hull,
                   prev_sgmts>>

\* copy the second point of the line segments to pts_set
TransformSecond ==
    /\ pc = "first"
    /\ pts_set' = TransformSecondInto(sgmts, 1, pts_set)
    /\ pc' = "second"
    /\ UNCHANGED <<pts, ret_hull_points, sgmts, bf_calls, out0, kind, prev_hull,
                   prev_sgmts>>

\* std::copy(pts_set.begin(), pts_set.end(), std::back_inserter(ret_hull_points))
CopyOut ==
    /\ pc = "second"
    /\ ret_hull_points' = ret_hull_points \o pts_set
    /\ pc' = "done"
    /\ UNCHANGED <<pts, sgmts, pts_set, bf_calls, out0, kind, prev_hull, prev_sgmts>>

\* What the call appended to the output vector.
Produced == SubSeq(ret_hull_points, Len(out0) + 1, Len(ret_hull_points))

Permutations(s) ==
    {t \in [1..Len(s) -> Range(s)] : Range(t) = Range(s)}

\* A caller hands the points find_hull produced to find_hull again, with a
\* fresh output vector.
Rehull ==
    /\ pc = "done"
    /\ kind = "first"
    /\ pts' = Produced
    /\ prev_hull' = Produced
    /\ prev_sgmts' = sgmts
    /\ ret_hull_points' = <<>>
    /\ out0' = <<>>
    /\ sgmts' = <<>>
    /\ pts_set' = <<>>
    /\ bf_calls' = <<>>
    /\ kind' = "rehull"
    /\ pc' = "start"

\* A caller hands the same points to find_hull in another order, with a fresh
\* output vector.
Reorder ==
    /\ pc = "done"
    /\ kind = "first"
    /\ Len(pts) <= MaxReorder
    /\ pts' \in Permutations(pts) \ {pts}
    /\ prev_hull' = Produced
    /\ prev_sgmts' = sgmts
    /\ ret_hull_points' = <<>>
    /\ out0' = <<>>
    /\ sgmts' = <<>>
    /\ pts_set' = <<>>
    /\ bf_calls' = <<>>
    /\ kind' = "perm"
    /\ pc' = "start"

\* A caller hands the same points to find_hull in descending order, with a
\* fresh output vector.
Reverse ==
    /\ pc = "done"
    /\ kind = "first"
    /\ Len(pts) >= 2
    /\ pts' = [n \in 1..Len(pts) |-> pts[Len(pts) + 1 - n]]
    /\ prev_hull' = Produced
    /\ prev_sgmts' = sgmts
    /\ ret_hull_points' = <<>>
    /\ out0' = <<>>
    /\ sgmts' = <<>>
    /\ pts_set' = <<>>
    /\ bf_calls' = <<>>
    /\ kind' = "reverse"
    /\ pc' = "start"

Next ==
    \/ FindHullThrow
    \/ FindHullSingle
    \/ FindHullCall
    \/ TransformFirst
    \/ TransformSecond
    \/ CopyOut
    \/ Rehull
    \/ Reverse

Spec == Init /\ [][Next]_vars

NextPerm ==
    \/ FindHullThrow
    \/ FindHullSingle
    \/ FindHullCall
    \/ TransformFirst
    \/ TransformSecond
    \/ CopyOut
    \/ Reorder

SpecPerm == Init /\ [][NextPerm]_vars

----------------------------------------------------------------------------
(* Plane geometry the properties are stated in *)

\* Twice the signed area of the triangle p, q, r.
Orient(p, q, r) ==
    ((q[1] - p[1]) * (r[2] - p[2])) - ((q[2] - p[2]) * (r[1] - p[1]))

\* p lies on the open segment from a to b.
Between(p, a, b) ==
    /\ a /= b
    /\ p /= a
    /\ p /= b
    /\ Orient(a, b, p) = 0
    /\ ((a[1] - p[1]) * (b[1] - p[1])) + ((a[2] - p[2]) * (b[2] - p[2])) < 0

\* p lies strictly inside a triangle of three points of R (named a, b, c
\* counter-clockwise, so that p is strictly to the left of each side).
InsideSomeTriangle(p, R) ==
    \E a \in R, b \in R :
        /\ Orient(a, b, p) > 0
        /\ \E c \in R : Orient(b, c, p) > 0 /\ Orient(c, a, p) > 0

AllCollinear(S) == \A a \in S, b \in S, c \in S : Orient(a, b, c) = 0

\* p is a convex combination of other points of S: by Caratheodory's theorem
\* it then lies on a segment between two of them or inside a triangle of
\* three of them.
IsConvexCombination(p, S) ==
    LET R == S \ {p}
    IN  \/ \E a \in R, b \in R : Between(p, a, b)
        \/ InsideSomeTriangle(p, R)

\* p is a vertex of the smallest convex polygon enclosing S.
IsHullVertex(p, S) == p \in S /\ ~IsConvexCombination(p, S)

HullVertices(S) == {p \in S : IsHullVertex(p, S)}

\* p lies in the interior of the convex hull of S: inside a triangle of points
\* of S, or on a segment between two of them that has points of S strictly on
\* both of its sides.
StrictlyInside(p, S) ==
    LET R == S \ {p}
    IN  \/ InsideSomeTriangle(p, R)
        \/ \E a \in R, c \in R :
              /\ Between(p, a, c)
              /\ \E b \in R : Orient(a, c, b) > 0
              /\ \E d \in R : Orient(a, c, d) < 0

\* p lies on the boundary of the convex hull of S.
OnBoundary(p, S) == p \in S /\ ~StrictlyInside(p, S)

\* No point of S lies on the boundary of the hull except at its vertices.
BoundaryIsVertices(S) == \A p \in S : ~IsHullVertex(p, S) => ~OnBoundary(p, S)

\* Strictly ascending by x, then y.
LexAscending(s) ==
    \A n \in 1..(Len(s) - 1) :
        \/ s[n][1] < s[n + 1][1]
        \/ s[n][1] = s[n + 1][1] /\ s[n][2] < s[n + 1][2]

DuplicateFree(s) == \A m \in 1..Len(s), n \in 1..Len(s) : s[m] = s[n] => m = n

\* The two-element sets of end points of a vector of segments.
UnorderedPairs(segs) == {{e[1], e[2]} : e \in Range(segs)}

\* The pairs of positions the enumerator examines.
IndexPairs == {ij \in (1..Len(pts)) \X (1..Len(pts)) : ij[1] < ij[2]}

Returned == pc = "done"

Enumerated == pc = "called"

----------------------------------------------------------------------------
(* Properties *)

\* C1: find_hull on an empty vector throws before anything is computed:
\* brute_force_convex_hull is not invoked, nothing is collected, and the
\* output vector holds what it held on entry; and nothing else throws.
C1_EmptyInputThrows ==
    /\ Len(pts) = 0 =>
          /\ pc \in {"start", "thrown"}
          /\ bf_calls = <<>>
          /\ sgmts = <<>>
          /\ pts_set = <<>>
          /\ ret_hull_points = out0
    /\ pc = "thrown" => Len(pts) = 0

\* An empty input has thrown and a non-empty output vector is untouched.
C1_Witness ==
    /\ pc = "thrown"
    /\ Len(pts) = 0
    /\ out0 /= <<>>
    /\ ret_hull_points = out0

\* C2: when no input point lies on the boundary of the hull except at its
\* vertices, the points returned for n >= 2 points are exactly the vertices
\* of the smallest convex polygon enclosing the input.
C2_ExactlyTheVertices ==
    (Returned /\ Len(pts) >= 2 /\ DuplicateFree(pts) /\ BoundaryIsVertices(Range(pts)))
        => Range(Produced) = HullVertices(Range(pts))

\* Five points in general position on the boundary, one of them not a
\* vertex of the result because it is interior.
C2_Witness ==
    /\ Returned
    /\ Len(pts) = 5
    /\ BoundaryIsVertices(Range(pts))
    /\ Range(Produced) = HullVertices(Range(pts))
    /\ Range(Produced) /= Range(pts)

\* C3: into a fresh output vector, find_hull on a non-empty duplicate-free
\* input produces a sequence strictly ascending by x, then y, and so without
\* repeated points.
C3_StrictlyAscending ==
    (Returned /\ out0 = <<>> /\ Len(pts) >= 1 /\ DuplicateFree(pts))
        => /\ LexAscending(ret_hull_points)
           /\ DuplicateFree(ret_hull_points)

\* A result of four points, produced from an input in descending order.
C3_Witness ==
    /\ Returned
    /\ kind = "reverse"
    /\ out0 = <<>>
    /\ Len(ret_hull_points) >= 4
    /\ LexAscending(ret_hull_points)

\* C4: for n >= 2 points not all collinear, a point strictly inside the hull
\* is never returned; the square's corners with its centre give the corners.
C4_InteriorExcluded ==
    /\ (Returned /\ Len(pts) >= 2 /\ DuplicateFree(pts) /\ ~AllCollinear(Range(pts)))
          => \A p \in Range(pts) : StrictlyInside(p, Range(pts)) => p \notin Range(Produced)
    /\ (Returned /\ Range(pts) = {<<0, 0>>, <<0, 2>>, <<2, 0>>, <<2, 2>>, <<1, 1>>})
          => Produced = << <<0, 0>>, <<0, 2>>, <<2, 0>>, <<2, 2>> >>

\* The square with its centre has been processed.
C4_Witness ==
    /\ Returned
    /\ Range(pts) = {<<0, 0>>, <<0, 2>>, <<2, 0>>, <<2, 2>>, <<1, 1>>}
    /\ StrictlyInside(<<1, 1>>, Range(pts))
    /\ <<1, 1>> \notin Range(Produced)

\* C5: find_hull on the result of find_hull returns the same set of points.
C5_Idempotent ==
    (Returned /\ kind = "rehull")
        => /\ pts = prev_hull
           /\ Range(Produced) = Range(prev_hull)

\* The second call has returned for a first result that holds a point lying
\* between two others.
C5_Witness ==
    /\ Returned
    /\ kind = "rehull"
    /\ Range(Produced) = Range(prev_hull)
    /\ \E p \in Range(pts), a \in Range(pts), b \in Range(pts) : Between(p, a, b)
    /\ ~AllCollinear(Range(pts))

\* C6: for one point the result is that point, appended to the output
\* vector, and brute_force_convex_hull is not invoked; it is only ever
\* invoked with two or more points.
C6_SinglePoint ==
    /\ (Returned /\ Len(pts) = 1)
          => /\ Produced = <<pts[1]>>
             /\ ret_hull_points = out0 \o <<pts[1]>>
             /\ bf_calls = <<>>
             /\ sgmts = <<>>
    /\ \A n \in 1..Len(bf_calls) : bf_calls[n] >= 2
    /\ (pc = "start" /\ Len(pts) = 1) => ~ENABLED FindHullCall

\* A single point has been returned.
C6_Witness ==
    /\ Returned
    /\ Len(pts) = 1
    /\ Produced = <<pts[1]>>
    /\ bf_calls = <<>>

\* The signed value of the claim: a*x_k + b*y_k - c with a = y_j - y_i,
\* b = x_i - x_j, c = y_j*x_i - y_i*x_j.
SignedValue(pi, pj, pk) ==
    LET a == pj[2] - pi[2]
        b == pi[1] - pj[1]
        c == (pj[2] * pi[1]) - (pi[2] * pj[1])
    IN  (a * pk[1]) + (b * pk[2]) - c

BothSides(pi, pj) ==
    /\ \E k \in 1..Len(pts) : SignedValue(pi, pj, pts[k]) < 0
    /\ \E k \in 1..Len(pts) : SignedValue(pi, pj, pts[k]) > 0

\* C7: the pair (P_i, P_j), i < j, is among the accepted segments, once, if
\* and only if the points do not fall strictly on both sides of its line;
\* every accepted segment has all points in one closed half-plane, and every
\* rejected pair has points strictly on both sides.
C7_AcceptedIffOneSided ==
    Enumerated =>
        /\ \A ij \in IndexPairs :
              LET pi == pts[ij[1]]
                  pj == pts[ij[2]]
                  at == {n \in 1..Len(sgmts) : sgmts[n] = <<pi, pj>>}
              IN  /\ (at /= {}) <=> ~BothSides(pi, pj)
                  /\ Cardinality(at) <= 1
                  /\ (at = {}) =>
                        \E r \in Range(pts), q \in Range(pts) :
                            Orient(pi, pj, r) > 0 /\ Orient(pi, pj, q) < 0
        /\ \A e \in Range(sgmts) :
              /\ \E ij \in IndexPairs : e = <<pts[ij[1]], pts[ij[2]]>>
              /\ \/ \A r \in Range(pts) : Orient(e[1], e[2], r) >= 0
                 \/ \A r \in Range(pts) : Orient(e[1], e[2], r) <= 0

\* Both outcomes in one enumeration: a pair accepted with points off its
\* line, and a pair rejected.
C7_Witness ==
    /\ Enumerated
    /\ \E ij \in IndexPairs :
          /\ <<pts[ij[1]], pts[ij[2]]>> \in Range(sgmts)
          /\ \E r \in Range(pts) : Orient(pts[ij[1]], pts[ij[2]], r) /= 0
    /\ \E ij \in IndexPairs :
          /\ <<pts[ij[1]], pts[ij[2]]>> \notin Range(sgmts)
          /\ BothSides(pts[ij[1]], pts[ij[2]])

\* C8: a point on the boundary of the hull strictly between two hull vertices
\* is an end point of an accepted segment and is returned; when all points
\* are collinear every pair is accepted and the result is the whole input.
C8_CollinearBoundaryKept ==
    (Returned /\ Len(pts) >= 2 /\ DuplicateFree(pts)) =>
        LET S == Range(pts)
        IN  /\ \A p \in S :
                  (/\ \E u \in S, v \in S :
                         Between(p, u, v) /\ IsHullVertex(u, S) /\ IsHullVertex(v, S)
                   /\ OnBoundary(p, S))
                      => /\ \E e \in Range(sgmts) : p = e[1] \/ p = e[2]
                         /\ p \in Range(Produced)
            /\ AllCollinear(S)
                  => /\ \A ij \in IndexPairs : <<pts[ij[1]], pts[ij[2]]>> \in Range(sgmts)
                     /\ Range(Produced) = S

\* A point between two vertices on the boundary of a proper polygon has been
\* returned.
C8_Witness ==
    /\ Returned
    /\ ~AllCollinear(Range(pts))
    /\ \E p \in Range(pts) :
          /\ OnBoundary(p, Range(pts))
          /\ \E u \in Range(pts), v \in Range(pts) :
                /\ Between(p, u, v)
                /\ IsHullVertex(u, Range(pts))
                /\ IsHullVertex(v, Range(pts))
          /\ p \in Range(Produced)

\* C9: for n >= 2 points at least one segment is accepted, at least two
\* points are returned and each is an input point; for n = 2 the single pair
\* is accepted and both points are returned.
C9_AtLeastOneEdge ==
    /\ (Returned /\ Len(pts) >= 2 /\ DuplicateFree(pts))
          => /\ Len(sgmts) >= 1
             /\ Len(Produced) >= 2
             /\ Range(Produced) \subseteq Range(pts)
    /\ (Returned /\ Len(pts) = 2 /\ DuplicateFree(pts))
          => /\ sgmts = << <<pts[1], pts[2]>> >>
             /\ Range(Produced) = Range(pts)

\* Two points have been returned for an input of two.
C9_Witness ==
    /\ Returned
    /\ Len(pts) = 2
    /\ Len(Produced) = 2
    /\ sgmts = << <<pts[1], pts[2]>> >>

\* C10: for another ordering of the same points find_hull returns the same
\* sequence, and brute_force_convex_hull accepts the same unordered pairs.
C10_OrderIndependent ==
    /\ (Returned /\ kind = "perm")
          => /\ ret_hull_points = prev_hull
             /\ UnorderedPairs(sgmts) = UnorderedPairs(prev_sgmts)
    /\ (Enumerated /\ kind = "perm")
          => UnorderedPairs(sgmts) = UnorderedPairs(prev_sgmts)

\* A reordered input whose accepted segments differ, as a sequence, from the
\* first call's, with some pair accepted and some pair rejected.
C10_Witness ==
    /\ Returned
    /\ kind = "perm"
    /\ Len(pts) >= 4
    /\ sgmts /= prev_sgmts
    /\ Len(ret_hull_points) < Len(pts)
    /\ ret_hull_points = prev_hull

====
